---- MODULE Spec2Model ----
(***************************************************************************)
(* A model of python-spidev2: the SPITransfer / SPITransferList descriptor *)
(* construction (src/spidev2/__init__.py), the SPIBus handle built on      *)
(* io.FileIO, and the ioctl request codes of src/spidev2/linux_spidev.py.  *)
(*                                                                         *)
(* Python objects are modelled by records.  A caller buffer lives in a     *)
(* heap slot; "None" is slot 0.  A raised exception is a record            *)
(* [exc, args]; "no exception" is NoErr.  errno values are kept by name.   *)
(***************************************************************************)
EXTENDS Integers, Sequences, FiniteSets, TLC

VARIABLES
    heap,       \* caller buffers: slot -> [kind, len, gen, ref]
    tl,         \* the caller's SPITransferList, if it built one
    closed,     \* io.FileIO closed flag of the SPIBus handle
    dev,        \* device-side settings held by the spidev driver
    byteorder,  \* native byte order ctypes works in
    wrote,      \* per setting: the value last written through its setter
    last        \* what the last operation did: its outcome and its calls

vars == <<heap, tl, closed, dev, byteorder, wrote, last>>

-----------------------------------------------------------------------------
(* Bounds of the model *)

NBuf == 2       \* heap slots for caller buffers
MaxLen == 2     \* longest caller buffer
MaxGen == 1     \* how often one bytearray's storage may move
MaxBatch == 2   \* longest kw_list given to SPITransferList

Slots == 1..NBuf
NoneRef == 0    \* a tx_buf / rx_buf argument left at None
Refs == 0..NBuf

Kinds == {"bytearray", "bytes", "tuple"}

FreeSlot == [kind |-> "free", len |-> 0, gen |-> 0, ref |-> FALSE]

-----------------------------------------------------------------------------
(* Exceptions *)

NoErr == [exc |-> "none", args |-> <<>>]
Raise(exc, args) == [exc |-> exc, args |-> args]

\* OSError sets its errno attribute only when built from (errno, strerror).
OSErrno(e) ==
    IF e.exc = "OSError" /\ Len(e.args) >= 2 THEN e.args[1] ELSE "None"

-----------------------------------------------------------------------------
(* ctypes integers *)

RECURSIVE Pow2(_)
Pow2(n) == IF n = 0 THEN 1 ELSE 2 * Pow2(n - 1)

c_uint8(v) == v % Pow2(8)
c_uint16(v) == v % Pow2(16)
\* (by 16-bit halves: TLC integers are 32 bits wide)
c_uint32(v) == ((v \div Pow2(16)) % Pow2(16)) * Pow2(16) + (v % Pow2(16))
c_bool8(b) == IF b THEN 1 ELSE 0

\* spi_ioc_transfer._fields_ : the width in bytes of each field, in order
TransferFieldWidths == <<8, 8, 4, 4, 2, 1, 1, 1, 1, 1, 1>>

Max(a, b) == IF a >= b THEN a ELSE b
AlignUp(off, a) == ((off + a - 1) \div a) * a

RECURSIVE LayoutEnd(_, _, _)
LayoutEnd(widths, i, off) ==
    IF i > Len(widths) THEN off
    ELSE LayoutEnd(widths, i + 1, AlignUp(off, widths[i]) + widths[i])

RECURSIVE MaxWidth(_, _)
MaxWidth(widths, i) ==
    IF i > Len(widths) THEN 1 ELSE Max(widths[i], MaxWidth(widths, i + 1))

\* ctypes.sizeof(spi_ioc_transfer): native alignment, padded to the widest field
SizeofTransfer ==
    AlignUp(LayoutEnd(TransferFieldWidths, 1, 0), MaxWidth(TransferFieldWidths, 1))

-----------------------------------------------------------------------------
(* Wide integers *)

\* A Python int is kept as its base-256 digits, least significant first, with
\* no leading zero digit (0 is the empty sequence); so are the 32-bit words
\* that go to and from the driver.
RECURSIVE Digits(_)
Digits(n) == IF n = 0 THEN <<>> ELSE <<n % 256>> \o Digits(n \div 256)

RECURSIVE Canon(_)
Canon(d) ==
    IF d = <<>> THEN <<>>
    ELSE IF d[Len(d)] = 0 THEN Canon(SubSeq(d, 1, Len(d) - 1))
    ELSE d

\* The low `width` bytes of a value, as exactly `width` digits
Trunc(d, width) == [i \in 1..width |-> IF i <= Len(d) THEN d[i] ELSE 0]

Reverse(q) == [i \in 1..Len(q) |-> q[Len(q) + 1 - i]]

\* A fixed-width unsigned integer as it lies in memory, and back
ToMem(order, d) == IF order = "little" THEN d ELSE Reverse(d)
FromMem(order, m) == IF order = "little" THEN m ELSE Reverse(m)

-----------------------------------------------------------------------------
(* ioctl request codes (ioctl_opt's IOC / IOR / IOW, asm-generic layout):   *)
(* a 32-bit word, command number in bits 0-7, magic in bits 8-15, payload  *)
(* size in bits 16-29, direction in bits 30-31.                            *)

IOC_WRITE == 1
IOC_READ == 2

IOC(dir, type, nr, size) ==
    <<nr, type, size % 256, ((size \div 256) % 64) + dir * 64>>

IOR(type, nr, size) == IOC(IOC_READ, type, nr, size)
IOW(type, nr, size) == IOC(IOC_WRITE, type, nr, size)

\* The driver's decoding of a request code
IOC_DIR(req) == req[4] \div 64
IOC_TYPE(req) == req[2]
IOC_NR(req) == req[1]
IOC_SIZE(req) == req[3] + (256 * (req[4] % 64))

SPI_IOC_MAGIC == 107    \* ord(b'k')

\* A variant that forgets the transfer count
SPI_IOC_MESSAGE_OneRecord(transfer_count) ==
    IOW(SPI_IOC_MAGIC, 0, SizeofTransfer)

SPI_IOC_MESSAGE(transfer_count) ==
    IOW(SPI_IOC_MAGIC, 0, SizeofTransfer * transfer_count)

SPI_IOC_RD_BITS_PER_WORD == IOR(SPI_IOC_MAGIC, 3, 1)
SPI_IOC_WR_BITS_PER_WORD == IOW(SPI_IOC_MAGIC, 3, 1)
SPI_IOC_RD_MAX_SPEED_HZ == IOR(SPI_IOC_MAGIC, 4, 4)
SPI_IOC_WR_MAX_SPEED_HZ == IOW(SPI_IOC_MAGIC, 4, 4)
SPI_IOC_RD_MODE32 == IOR(SPI_IOC_MAGIC, 5, 4)
SPI_IOC_WR_MODE32 == IOW(SPI_IOC_MAGIC, 5, 4)

SPI_IOC_MESSAGE_1 == SPI_IOC_MESSAGE(1)

-----------------------------------------------------------------------------
(* Caller buffers and their addresses *)

\* Address 0 is "no buffer".  The storage of slot b in its generation g, and
\* the private copy made for element i, all get distinct non-zero addresses.
AddrOf(b, g) == b * (MaxGen + 2) + g + 1
CopyAddr(i) == (NBuf + 1) * (MaxGen + 2) + i + 1

\* len(buf)
PyLen(h, b) == h[b].len

\* ctypes.c_char.from_buffer(buf), then ctypes.addressof of it.  The c_char
\* object is the only holder of the buffer export and is not kept.
FromBuffer(h, b) ==
    CASE h[b].kind = "tuple" ->
            [err |-> Raise("TypeError", <<"a bytes-like object is required">>),
             addr |-> 0]
      [] h[b].kind = "bytes" ->
            [err |-> Raise("TypeError", <<"underlying buffer is not writable">>),
             addr |-> 0]
      [] h[b].kind = "bytearray" /\ h[b].len < 1 ->
            [err |-> Raise("ValueError", <<"Buffer size too small">>),
             addr |-> 0]
      [] OTHER ->
            [err |-> NoErr, addr |-> AddrOf(b, h[b].gen)]

\* ctypes.create_string_buffer(init): bytes are copied into a new array of
\* len(init) + 1 chars; anything that is neither bytes nor int is refused.
CreateStringBuffer(h, b, i) ==
    IF h[b].kind = "bytes"
    THEN [err |-> NoErr, addr |-> CopyAddr(i), size |-> h[b].len + 1]
    ELSE [err |-> Raise("TypeError", <<"init">>), addr |-> 0, size |-> 0]

-----------------------------------------------------------------------------
(* SPITransfer *)

\* The keyword arguments besides the two buffers, at their defaults
DefaultScalars ==
    [speed_hz |-> 0, bits_per_word |-> 0, delay_usecs |-> 0,
     cs_change |-> FALSE, tx_nbits |-> 0, rx_nbits |-> 0,
     word_delay_usecs |-> 0]

\* A second parameter set, every override in use
OverrideScalars ==
    [speed_hz |-> 1000000, bits_per_word |-> 16, delay_usecs |-> 10,
     cs_change |-> TRUE, tx_nbits |-> 2, rx_nbits |-> 4,
     word_delay_usecs |-> 1]

ScalarSets == {DefaultScalars, OverrideScalars}

Kw(tx, rx, sc) == [tx_buf |-> tx, rx_buf |-> rx, sc |-> sc]

\* spi_ioc_transfer(): a zeroed record
ZeroTransfer ==
    [tx_buf |-> 0, rx_buf |-> 0, len |-> 0, speed_hz |-> 0,
     delay_usecs |-> 0, bits_per_word |-> 0, cs_change |-> 0,
     tx_nbits |-> 0, rx_nbits |-> 0, word_delay_usecs |-> 0, pad |-> 0]

\* An SPITransfer whose constructor raised has no attributes
NoTransfer ==
    [_tx_buf |-> NoneRef, _rx_buf |-> NoneRef, _tx_buf_raw |-> 0,
     _transfer |-> ZeroTransfer]

\* The transmit half of SPITransfer.__init__ (lines 101-115)
ResolveTx(h, tx, i) ==
    IF tx = NoneRef
    THEN [err |-> NoErr, addr |-> 0, length |-> 0, raw |-> 0]
    ELSE LET fb == FromBuffer(h, tx)
             sb == CreateStringBuffer(h, tx, i)
         IN  IF fb.err.exc = "TypeError"
             THEN [err |-> sb.err, addr |-> sb.addr, length |-> PyLen(h, tx),
                   raw |-> sb.size]
             ELSE [err |-> fb.err, addr |-> fb.addr, length |-> PyLen(h, tx),
                   raw |-> 0]

\* The receive half of SPITransfer.__init__ (lines 116-128)
ResolveRx(h, tx, rx, txlen) ==
    IF rx = NoneRef
    THEN IF tx = NoneRef
         THEN [err |-> Raise("ValueError",
                             <<"neither tx_buf nor rx_buf was provided">>),
               addr |-> 0, length |-> 0]
         ELSE [err |-> NoErr, addr |-> 0, length |-> txlen]
    ELSE LET fb == FromBuffer(h, rx)
         IN  IF fb.err # NoErr
             THEN [err |-> fb.err, addr |-> 0, length |-> 0]
             ELSE IF tx = NoneRef
             THEN [err |-> NoErr, addr |-> fb.addr, length |-> PyLen(h, rx)]
             ELSE IF PyLen(h, rx) # txlen
             THEN [err |-> Raise("ValueError", <<"mismatched lengths">>),
                   addr |-> 0, length |-> 0]
             ELSE [err |-> NoErr, addr |-> fb.addr, length |-> txlen]

\* The record as filled in by lines 134-143
FillTransfer(txaddr, rxaddr, length, sc) ==
    [tx_buf |-> txaddr, rx_buf |-> rxaddr, len |-> c_uint32(length),
     speed_hz |-> c_uint32(sc.speed_hz),
     delay_usecs |-> c_uint16(sc.delay_usecs),
     bits_per_word |-> c_uint8(sc.bits_per_word),
     cs_change |-> c_bool8(sc.cs_change),
     tx_nbits |-> c_uint8(sc.tx_nbits), rx_nbits |-> c_uint8(sc.rx_nbits),
     word_delay_usecs |-> c_uint8(sc.word_delay_usecs), pad |-> 0]

\* SPITransfer.__init__(**kw), writing into record slot i:
\* the exception it raises, or the object it builds.
SPITransfer_init(h, kw, i) ==
    LET t == ResolveTx(h, kw.tx_buf, i)
        r == ResolveRx(h, kw.tx_buf, kw.rx_buf, t.length)
    IN  IF t.err # NoErr THEN [err |-> t.err, obj |-> NoTransfer]
        ELSE IF r.err # NoErr THEN [err |-> r.err, obj |-> NoTransfer]
        ELSE [err |-> NoErr,
              obj |-> [_tx_buf |-> kw.tx_buf, _rx_buf |-> kw.rx_buf,
                       _tx_buf_raw |-> t.raw,
                       _transfer |-> FillTransfer(t.addr, r.addr, r.length,
                                                  kw.sc)]]

\* SPITransfer.rx_buf (property)
SPITransfer_rx_buf(obj) == obj._rx_buf

\* Attribute lookup on an SPITransfer from outside the class: it has the
\* properties tx_buf, rx_buf and transfer, and no other public attribute
GetAttr(obj, name) ==
    CASE name = "rx_buf" -> [err |-> NoErr, val |-> SPITransfer_rx_buf(obj)]
      [] name = "tx_buf" -> [err |-> NoErr, val |-> obj._tx_buf]
      [] OTHER -> [err |-> Raise("AttributeError", <<name>>), val |-> NoneRef]

-----------------------------------------------------------------------------
(* SPITransferList *)

NoList ==
    [present |-> FALSE, _length |-> 0, _transfer_list |-> <<>>,
     _spi_transfer_list |-> <<>>, _ioctl_request |-> <<>>]

\* The loop of SPITransferList.__init__ (lines 180-184): element i is built
\* from kw_list[i] into record slot i; the first constructor to raise ends it.
RECURSIVE BuildTransfers(_, _, _, _)
BuildTransfers(h, kw_list, i, done) ==
    IF i > Len(kw_list) THEN [err |-> NoErr, objs |-> done]
    ELSE LET r == SPITransfer_init(h, kw_list[i], i)
         IN  IF r.err # NoErr THEN [err |-> r.err, objs |-> done]
             ELSE BuildTransfers(h, kw_list, i + 1, Append(done, r.obj))

SPITransferList_init(h, kw_list) ==
    LET length == Len(kw_list)
        b == BuildTransfers(h, kw_list, 1, <<>>)
    IN  IF b.err # NoErr THEN [err |-> b.err, obj |-> NoList]
        ELSE [err |-> NoErr,
              obj |-> [present |-> TRUE,
                       _length |-> length,
                       _transfer_list |->
                           [i \in 1..length |-> b.objs[i]._transfer],
                       _spi_transfer_list |-> b.objs,
                       _ioctl_request |-> SPI_IOC_MESSAGE(length)]]

\* SPITransferList.__len__, __getitem__, ioctl_args
SPITransferList_len(t) == t._length
SPITransferList_getitem(t, i) == t._spi_transfer_list[i]
SPITransferList_ioctl_args(t) == <<t._ioctl_request, t._transfer_list>>

-----------------------------------------------------------------------------
(* Object lifetime: reference counting *)

\* An SPITransfer keeps its two buffer arguments alive (lines 129-130)
Holds(obj, b) == obj._tx_buf = b \/ obj._rx_buf = b

ListHolds(t, b) ==
    \E i \in 1..Len(t._spi_transfer_list) : Holds(t._spi_transfer_list[i], b)

\* A buffer is deallocated once neither the caller nor a descriptor holds it
Collect(h, t) ==
    [b \in Slots |->
        IF h[b].kind # "free" /\ ~h[b].ref /\ ~ListHolds(t, b)
        THEN FreeSlot ELSE h[b]]

\* Whether the addresses and the len in an SPITransfer's record still describe
\* the memory they were resolved from
AddrLive(h, obj, b, addr, raw) ==
    \/ addr = 0
    \/ raw > 0 /\ obj._transfer.len <= raw
    \/ /\ raw = 0
       /\ b # NoneRef
       /\ h[b].kind # "free"
       /\ addr = AddrOf(b, h[b].gen)
       /\ obj._transfer.len <= h[b].len

RecordLive(h, obj) ==
    /\ AddrLive(h, obj, obj._tx_buf, obj._transfer.tx_buf, obj._tx_buf_raw)
    /\ AddrLive(h, obj, obj._rx_buf, obj._transfer.rx_buf, 0)

-----------------------------------------------------------------------------
(* The device: fcntl.ioctl and the spidev driver behind it *)

\* How one ioctl(2) on the device ends: it returns a value (0 on success, or
\* the -1 that line 250 tests for), or fcntl.ioctl raises OSError(errno, ...).
IoctlOk == [how |-> "return", ret |-> 0, errno |-> "none"]
IoctlRaises(e) == [how |-> "raise", ret |-> -1, errno |-> e]
IoctlMinusOne(e) == [how |-> "return", ret |-> -1, errno |-> e]
IoctlFailed(out) == out.how = "raise" \/ out.ret = -1

\* The driver serving a read request: the setting the command number names,
\* put into the caller's memory as IOC_SIZE bytes
DriverRead(d, order, req) ==
    ToMem(order,
          Trunc(CASE IOC_NR(req) = 3 -> d.bits_per_word
                  [] IOC_NR(req) = 4 -> d.max_speed_hz
                  [] IOC_NR(req) = 5 -> d.mode
                  [] OTHER -> <<>>,
                IOC_SIZE(req)))

\* The driver serving a write request: IOC_SIZE bytes taken from the caller's
\* memory become the setting
DriverWrite(d, order, req, mem) ==
    LET value == FromMem(order, SubSeq(mem, 1, IOC_SIZE(req)))
    IN  CASE IOC_NR(req) = 3 -> [d EXCEPT !.bits_per_word = value]
          [] IOC_NR(req) = 4 -> [d EXCEPT !.max_speed_hz = value]
          [] IOC_NR(req) = 5 -> [d EXCEPT !.mode = value]
          [] OTHER -> d

\* What self.fileno() raises on a closed io.FileIO (line 250)
ClosedFileError == Raise("ValueError", <<"I/O operation on closed file">>)

\* A variant that keeps using the descriptor number after close()
SPIBus_ioctl_StaleFd(cl, out) ==
    IF cl
    THEN [err |-> Raise("OSError", <<"EBADF", "strerror">>), calls |-> 1]
    ELSE IF out.how = "raise"
    THEN [err |-> Raise("OSError", <<out.errno, "strerror">>), calls |-> 1]
    ELSE IF out.ret = -1
    THEN [err |-> Raise("OSError", <<>>), calls |-> 1]
    ELSE [err |-> NoErr, calls |-> 1]

\* SPIBus._ioctl (lines 249-251): fileno() refuses a closed file before any
\* call is made; otherwise one ioctl, and a bare OSError for a -1 result.
SPIBus_ioctl(cl, out) ==
    IF cl
    THEN [err |-> ClosedFileError, calls |-> 0]
    ELSE IF out.how = "raise"
    THEN [err |-> Raise("OSError", <<out.errno, "strerror">>), calls |-> 1]
    ELSE IF out.ret = -1
    THEN [err |-> Raise("OSError", <<>>), calls |-> 1]
    ELSE [err |-> NoErr, calls |-> 1]

\* The width in bytes of the ctypes object each property hands to _ioctl
GetterWidth(name) ==
    CASE name = "bits_per_word" -> 1
      [] name = "speed_hz" -> 4
      [] name = "spi_mode" -> 1

SetterWidth(name) ==
    CASE name = "bits_per_word" -> 1
      [] name = "speed_hz" -> 4
      [] name = "spi_mode" -> 4

ReadRequest(name) ==
    CASE name = "bits_per_word" -> SPI_IOC_RD_BITS_PER_WORD
      [] name = "speed_hz" -> SPI_IOC_RD_MAX_SPEED_HZ
      [] name = "spi_mode" -> SPI_IOC_RD_MODE32

WriteRequest(name) ==
    CASE name = "bits_per_word" -> SPI_IOC_WR_BITS_PER_WORD
      [] name = "speed_hz" -> SPI_IOC_WR_MAX_SPEED_HZ
      [] name = "spi_mode" -> SPI_IOC_WR_MODE32

Settings == {"bits_per_word", "speed_hz", "spi_mode"}

\* result.value after a successful read: fcntl.ioctl hands the driver a copy
\* of the ctypes object's bytes and copies back as many bytes as the object
\* holds, from the start of what the driver wrote
GetterValue(d, order, name) ==
    LET mem == DriverRead(d, order, ReadRequest(name))
        width == GetterWidth(name)
        back == [i \in 1..width |-> IF i <= Len(mem) THEN mem[i] ELSE 0]
    IN  Canon(FromMem(order, back))

\* The bytes of the ctypes object a setter passes: c_uint8(value) or
\* c_uint32(value), which keep the low bits of value
SetterMem(order, name, value) == ToMem(order, Trunc(value, SetterWidth(name)))

-----------------------------------------------------------------------------
(* What an operation is seen to do *)

\* The outcome of one operation: the exception it raised (err) or what it
\* returned (val, flag, buf or the generator over attr), the descriptor it
\* built, and the control call it made: how many attempts (calls), the request
\* code (req), how the OS answered (out), and whether every submitted record
\* still described live memory when the call was made (live).
Obs0 ==
    [op |-> "none", name |-> "", arg |-> 0, value |-> <<>>,
     kw |-> Kw(NoneRef, NoneRef, DefaultScalars), kws |-> <<>>,
     err |-> NoErr, val |-> <<>>, flag |-> FALSE, buf |-> NoneRef,
     obj |-> NoTransfer, items |-> <<>>, itemsErr |-> NoErr,
     calls |-> 0, req |-> <<>>, out |-> IoctlOk, live |-> TRUE]

\* Exhausting the generator  (getattr(x, attr) for x in transfer_list)
RECURSIVE Consume(_, _, _, _)
Consume(objs, attr, i, done) ==
    IF i > Len(objs) THEN [err |-> NoErr, items |-> done]
    ELSE LET a == GetAttr(objs[i], attr)
         IN  IF a.err # NoErr THEN [err |-> a.err, items |-> done]
             ELSE Consume(objs, attr, i + 1, Append(done, a.val))

\* The attribute the generator of submitTransferList reads (line 325)
SubmitYields == "rx_transfer"

InitialDev ==
    [bits_per_word |-> Trunc(Digits(8), 1),
     max_speed_hz |-> Trunc(Digits(500000), 4),
     mode |-> Trunc(Digits(0), 4)]
NotWritten == [set |-> FALSE, v |-> <<>>]

-----------------------------------------------------------------------------
(* The caller's own steps on the buffers it passes *)

\* buf = bytearray(n) / bytes(n) / a tuple of n byte values
NewBuffer(b, kind, n) ==
    /\ heap[b].kind = "free"
    /\ heap' = [heap EXCEPT ![b] = [kind |-> kind, len |-> n, gen |-> 0,
                                    ref |-> TRUE]]
    /\ last' = [Obs0 EXCEPT !.op = "caller"]
    /\ UNCHANGED <<tl, closed, dev, byteorder, wrote>>

\* Resizing a bytearray (extend, del buf[n:]): allowed whenever no buffer
\* export is held; the storage stays in place or moves.
Resize(b, n, moved) ==
    /\ heap[b].kind = "bytearray"
    /\ n # heap[b].len
    /\ moved => heap[b].gen < MaxGen
    /\ heap' = [heap EXCEPT ![b].len = n,
                            ![b].gen = IF moved THEN @ + 1 ELSE @]
    /\ last' = [Obs0 EXCEPT !.op = "caller"]
    /\ UNCHANGED <<tl, closed, dev, byteorder, wrote>>

\* del buf: the caller gives up its own reference
DropRef(b) ==
    /\ heap[b].kind # "free"
    /\ heap[b].ref
    /\ heap' = Collect([heap EXCEPT ![b].ref = FALSE], tl)
    /\ last' = [Obs0 EXCEPT !.op = "caller"]
    /\ UNCHANGED <<tl, closed, dev, byteorder, wrote>>

\* What the caller can pass as a buffer argument: None, or a buffer it holds
Passable(b) ==
    IF b = NoneRef THEN TRUE ELSE heap[b].kind # "free" /\ heap[b].ref
PassableKw(kw) == Passable(kw.tx_buf) /\ Passable(kw.rx_buf)

-----------------------------------------------------------------------------
(* Descriptor construction *)

\* SPITransfer(**kw), the object inspected and dropped
NewSPITransfer(kw) ==
    /\ PassableKw(kw)
    /\ LET r == SPITransfer_init(heap, kw, 0)
       IN  last' = [Obs0 EXCEPT !.op = "SPITransfer", !.kw = kw,
                                !.err = r.err, !.obj = r.obj,
                                !.buf = SPITransfer_rx_buf(r.obj),
                                !.live = RecordLive(heap, r.obj)]
    /\ UNCHANGED <<heap, tl, closed, dev, byteorder, wrote>>

\* tl = SPITransferList(kw_list); a constructor that raises leaves tl as it was
NewSPITransferList(kw_list) ==
    /\ \A i \in 1..Len(kw_list) : PassableKw(kw_list[i])
    /\ LET r == SPITransferList_init(heap, kw_list)
       IN  /\ tl' = IF r.err = NoErr THEN r.obj ELSE tl
           /\ heap' = IF r.err = NoErr THEN Collect(heap, r.obj) ELSE heap
           /\ last' = [Obs0 EXCEPT !.op = "SPITransferList",
                                   !.arg = Len(kw_list),
                                   !.kws = IF r.err = NoErr THEN kw_list
                                           ELSE <<>>,
                                   !.err = r.err]
    /\ UNCHANGED <<closed, dev, byteorder, wrote>>

-----------------------------------------------------------------------------
(* SPIBus *)

\* SPIBus.submitTransferList(tl) (lines 316-325), and the caller exhausting
\* the generator it returns
SubmitTransferList(out) ==
    /\ tl.present
    /\ LET args == SPITransferList_ioctl_args(tl)
           io == SPIBus_ioctl(closed, out)
           got == Consume(tl._spi_transfer_list, SubmitYields, 1, <<>>)
       IN  last' = [Obs0 EXCEPT
                       !.op = "submitTransferList",
                       !.err = io.err, !.calls = io.calls,
                       !.req = IF io.calls > 0 THEN args[1] ELSE <<>>,
                       !.out = IF io.calls > 0 THEN out ELSE IoctlOk,
                       !.live = \A i \in 1..Len(tl._spi_transfer_list) :
                                   RecordLive(heap, tl._spi_transfer_list[i]),
                       !.items = IF io.err = NoErr THEN got.items ELSE <<>>,
                       !.itemsErr = IF io.err = NoErr THEN got.err ELSE NoErr]
    /\ UNCHANGED <<heap, tl, closed, dev, byteorder, wrote>>

\* SPIBus.transfer(**kw) (lines 327-337)
Transfer(kw, out) ==
    /\ PassableKw(kw)
    /\ LET c == SPITransfer_init(heap, kw, 0)
           io == SPIBus_ioctl(closed, out)
       IN  last' =
             IF c.err # NoErr
             THEN [Obs0 EXCEPT !.op = "transfer", !.kw = kw, !.err = c.err]
             ELSE [Obs0 EXCEPT
                       !.op = "transfer", !.kw = kw, !.obj = c.obj,
                       !.err = io.err, !.calls = io.calls,
                       !.req = IF io.calls > 0 THEN SPI_IOC_MESSAGE_1 ELSE <<>>,
                       !.out = IF io.calls > 0 THEN out ELSE IoctlOk,
                       !.live = RecordLive(heap, c.obj),
                       !.buf = IF io.err = NoErr
                               THEN SPITransfer_rx_buf(c.obj) ELSE NoneRef]
    /\ UNCHANGED <<heap, tl, closed, dev, byteorder, wrote>>

\* The getter of bits_per_word / speed_hz / spi_mode (lines 277-310)
Get(name, out) ==
    /\ LET io == SPIBus_ioctl(closed, out)
       IN  last' = [Obs0 EXCEPT
                       !.op = "get", !.name = name,
                       !.err = io.err, !.calls = io.calls,
                       !.req = IF io.calls > 0 THEN ReadRequest(name) ELSE <<>>,
                       !.out = IF io.calls > 0 THEN out ELSE IoctlOk,
                       !.val = IF io.err = NoErr
                               THEN GetterValue(dev, byteorder, name)
                               ELSE <<>>]
    /\ UNCHANGED <<heap, tl, closed, dev, byteorder, wrote>>

\* The setter of bits_per_word / speed_hz / spi_mode (lines 286-314); the
\* driver stores the value only when the call succeeds
Set(name, value, out) ==
    /\ LET io == SPIBus_ioctl(closed, out)
           done == io.calls > 0 /\ ~IoctlFailed(out)
       IN  /\ last' = [Obs0 EXCEPT
                          !.op = "set", !.name = name, !.value = value,
                          !.err = io.err, !.calls = io.calls,
                          !.req = IF io.calls > 0 THEN WriteRequest(name)
                                  ELSE <<>>,
                          !.out = IF io.calls > 0 THEN out ELSE IoctlOk]
           /\ dev' = IF done
                     THEN DriverWrite(dev, byteorder, WriteRequest(name),
                                      SetterMem(byteorder, name, value))
                     ELSE dev
           /\ wrote' = IF done
                       THEN [wrote EXCEPT ![name] = [set |-> TRUE, v |-> value]]
                       ELSE wrote
    /\ UNCHANGED <<heap, tl, closed, byteorder>>

\* io.FileIO.close()
Close ==
    /\ closed' = TRUE
    /\ last' = [Obs0 EXCEPT !.op = "close"]
    /\ UNCHANGED <<heap, tl, dev, byteorder, wrote>>

\* SPIBus.seekable (lines 253-257)
Seekable ==
    /\ last' = [Obs0 EXCEPT !.op = "seekable", !.flag = FALSE]
    /\ UNCHANGED <<heap, tl, closed, dev, byteorder, wrote>>

\* A variant in which the positioning calls quietly do nothing
NotSupported_Silent == NoErr

\* What seek, tell and truncate raise (lines 263, 269, 275)
NotSupported == Raise("OSError", <<"ENOTSUP">>)

\* SPIBus.seek(pos, whence) (lines 259-263)
Seek(pos, whence) ==
    /\ last' = [Obs0 EXCEPT !.op = "seek", !.arg = pos, !.err = NotSupported]
    /\ UNCHANGED <<heap, tl, closed, dev, byteorder, wrote>>

\* SPIBus.tell() (lines 265-269)
Tell ==
    /\ last' = [Obs0 EXCEPT !.op = "tell", !.err = NotSupported]
    /\ UNCHANGED <<heap, tl, closed, dev, byteorder, wrote>>

\* SPIBus.truncate(size) (lines 271-275)
Truncate(size) ==
    /\ last' = [Obs0 EXCEPT !.op = "truncate", !.arg = size,
                            !.err = NotSupported]
    /\ UNCHANGED <<heap, tl, closed, dev, byteorder, wrote>>

-----------------------------------------------------------------------------
(* Inputs *)

KwSet == {Kw(tx, rx, sc) : tx \in Refs, rx \in Refs, sc \in ScalarSets}

\* Parameter sets for the elements of a batch: transmit-only, receive-only,
\* full duplex over two buffers, full duplex in place, and no buffer at all
ListKwSet ==
    {Kw(1, NoneRef, DefaultScalars), Kw(NoneRef, 2, OverrideScalars),
     Kw(1, 2, OverrideScalars), Kw(2, 2, DefaultScalars),
     Kw(NoneRef, NoneRef, DefaultScalars)}

RECURSIVE SeqsUpTo(_, _)
SeqsUpTo(S, n) ==
    IF n = 0 THEN {<<>>}
    ELSE LET shorter == SeqsUpTo(S, n - 1)
         IN  shorter \cup {Append(q, x) : q \in shorter, x \in S}

KwLists == SeqsUpTo(ListKwSet, MaxBatch)

\* The batches that are resubmitted: elements over a transmit buffer in slot 1
\* and a receive buffer in slot 2
ReusedKwSet ==
    {Kw(1, NoneRef, DefaultScalars), Kw(NoneRef, 2, OverrideScalars),
     Kw(1, 2, OverrideScalars)}

ReusedKwLists == SeqsUpTo(ReusedKwSet, MaxBatch)

Buffers ==
    {[kind |-> k, len |-> n, gen |-> 0, ref |-> TRUE] :
        k \in Kinds, n \in 0..MaxLen}

\* Values written to the settings: the ends of each range and flags on both
\* sides of bit 7 (SPI_MODE_3, SPI_TX_DUAL, SPI_3WIRE_HIZ, every flag)
SettingValues(name) ==
    CASE name = "bits_per_word" -> {Digits(1), Digits(255)}
      [] name = "speed_hz" -> {Digits(0), <<255, 255, 255, 255>>}
      [] name = "spi_mode" ->
            {Digits(3), Digits(256), Digits(32768), Digits(65535)}

XferOutcomes == {IoctlOk}
BusOutcomes == {IoctlOk, IoctlRaises("EINVAL"), IoctlMinusOne("EINVAL")}

\* What transfer() is called with on the bus handle: bytes out and a
\* bytearray in, bytes out only, and no buffer at all
BusKwSet ==
    {Kw(1, 2, DefaultScalars), Kw(1, NoneRef, DefaultScalars),
     Kw(NoneRef, NoneRef, DefaultScalars)}

-----------------------------------------------------------------------------
(* Spec: descriptor and batch construction as functions of their arguments. *)
(* The buffers are drawn at the start and one operation is applied to them. *)

Init ==
    /\ heap \in [Slots -> Buffers]
    /\ tl = NoList
    /\ closed = FALSE
    /\ dev = InitialDev
    /\ byteorder = "little"
    /\ wrote = [n \in Settings |-> NotWritten]
    /\ last = Obs0

Next ==
    /\ last.op = "none"
    /\ \/ \E kw \in KwSet : NewSPITransfer(kw)
       \/ \E kw_list \in KwLists : NewSPITransferList(kw_list)
       \/ \E kw \in KwSet, out \in XferOutcomes : Transfer(kw, out)

Spec == Init /\ [][Next]_vars

-----------------------------------------------------------------------------
(* SpecList: a batch that is built once and submitted again and again while *)
(* the caller goes on using the buffers it passed.                          *)

InitList ==
    /\ heap = [b \in Slots |-> FreeSlot]
    /\ tl = NoList
    /\ closed = FALSE
    /\ dev = InitialDev
    /\ byteorder = "little"
    /\ wrote = [n \in Settings |-> NotWritten]
    /\ last = Obs0

NextList ==
    \/ \E b \in Slots, k \in {"bytearray", "bytes"}, n \in 1..MaxLen :
          NewBuffer(b, k, n)
    \/ \E b \in Slots, n \in 0..MaxLen, m \in BOOLEAN : Resize(b, n, m)
    \/ \E b \in Slots : DropRef(b)
    \/ \E kw_list \in ReusedKwLists : NewSPITransferList(kw_list)
    \/ \E out \in XferOutcomes : SubmitTransferList(out)

SpecList == InitList /\ [][NextList]_vars

-----------------------------------------------------------------------------
(* SpecBus: the bus handle, from open to closed, over a device whose calls  *)
(* succeed or fail.                                                         *)

BusHeap ==
    [b \in Slots |->
        CASE b = 1 -> [kind |-> "bytes", len |-> 1, gen |-> 0, ref |-> TRUE]
          [] b = 2 -> [kind |-> "bytearray", len |-> 1, gen |-> 0,
                       ref |-> TRUE]
          [] OTHER -> FreeSlot]

InitBus ==
    /\ heap = BusHeap
    /\ tl = SPITransferList_init(BusHeap, <<Kw(1, 2, DefaultScalars)>>).obj
    /\ closed = FALSE
    /\ dev = InitialDev
    /\ byteorder \in {"little", "big"}
    /\ wrote = [n \in Settings |-> NotWritten]
    /\ last = Obs0

NextBus ==
    \/ \E n \in Settings, out \in BusOutcomes : Get(n, out)
    \/ \E n \in Settings, out \in BusOutcomes :
          \E v \in SettingValues(n) : Set(n, v, out)
    \/ \E kw \in BusKwSet, out \in BusOutcomes : Transfer(kw, out)
    \/ \E out \in BusOutcomes : SubmitTransferList(out)
    \/ Close
    \/ Seekable
    \/ \E pos \in {0, 1}, whence \in {0, 2} : Seek(pos, whence)
    \/ Tell
    \/ \E size \in {0, 1} : Truncate(size)

SpecBus == InitBus /\ [][NextBus]_vars

-----------------------------------------------------------------------------
(* Properties *)

HandleOps == {"get", "set", "transfer", "submitTransferList"}
PositionOps == {"seek", "tell", "truncate"}

\* C1: a successful submitTransferList of a batch of N >= 1 transfers makes
\* exactly one control call, with the batch's request code, and the sequence
\* it returns yields without failing the N receive buffers in batch order.
C1_SubmitYieldsRxBufs ==
    (last.op = "submitTransferList" /\ last.err = NoErr
        /\ SPITransferList_len(tl) >= 1) =>
        /\ last.calls = 1
        /\ last.req = tl._ioctl_request
        /\ last.itemsErr = NoErr
        /\ last.items =
              [i \in 1..SPITransferList_len(tl) |->
                  SPITransfer_rx_buf(SPITransferList_getitem(tl, i))]

\* C2: reading a setting back after writing v through its setter, with no
\* write in between, returns v.
C2_SettingsRoundTrip ==
    (last.op = "get" /\ last.err = NoErr /\ wrote[last.name].set) =>
        last.val = Canon(wrote[last.name].v)

\* C3: whenever a transfer control call is issued, every non-zero address in
\* the submitted records points at the current storage of its buffer and the
\* record's len is within the buffer's current length.
C3_BuffersLiveAtCall ==
    (last.op \in {"transfer", "submitTransferList"} /\ last.calls >= 1) =>
        last.live

\* C4 as stated: on a closed handle every configuration read or write,
\* transfer() and submitTransferList() fails with an OSError carrying EBADF
\* and makes no control call.
C4_ClosedFailsWithEBADF ==
    (closed /\ last.op \in HandleOps) =>
        /\ last.err.exc = "OSError"
        /\ OSErrno(last.err) = "EBADF"
        /\ last.calls = 0

\* C4 as amended: an operation on a closed handle fails with the ValueError
\* of a closed file (transfer() with the error of its descriptor's
\* construction when that fails first), makes no control call, leaves the
\* device settings alone, and the handle stays closed.
C4_ClosedFailsWithClosedFileError ==
    [][closed =>
        /\ closed'
        /\ dev' = dev
        /\ last'.op \in HandleOps =>
              /\ last'.calls = 0
              /\ last'.err # NoErr
              /\ \/ last'.err = ClosedFileError
                 \/ /\ last'.op = "transfer"
                    /\ last'.err.exc \in {"ValueError", "TypeError"}
                    /\ last'.obj = NoTransfer]_vars

C4_Witness ==
    /\ closed
    /\ last.op = "submitTransferList"
    /\ last.err = ClosedFileError
    /\ wrote["spi_mode"].set

\* C5: when the control call of an operation reports failure, by raising or
\* by returning -1, the operation ends in an OSError carrying the errno the
\* OS reported, after exactly one attempt, and returns nothing.
C5_FailureCarriesErrno ==
    (last.op \in HandleOps /\ last.calls >= 1 /\ IoctlFailed(last.out)) =>
        /\ last.calls = 1
        /\ last.err.exc = "OSError"
        /\ OSErrno(last.err) = last.out.errno
        /\ last.val = <<>> /\ last.buf = NoneRef /\ last.items = <<>>

\* C6: with both buffers given, lengths that differ always end in
\* ValueError('mismatched lengths') whatever the buffers are; equal non-zero
\* lengths of a readable tx_buf and a writable rx_buf construct, with len the
\* shared length.
C6_MismatchedLengths ==
    (last.op = "SPITransfer" /\ last.kw.tx_buf # NoneRef
        /\ last.kw.rx_buf # NoneRef) =>
        LET t == heap[last.kw.tx_buf]
            r == heap[last.kw.rx_buf]
        IN  /\ t.len # r.len =>
                  last.err = Raise("ValueError", <<"mismatched lengths">>)
            /\ (t.len = r.len /\ t.len > 0 /\ t.kind \in {"bytearray", "bytes"}
                  /\ r.kind = "bytearray") =>
                  (last.err = NoErr /\ last.obj._transfer.len = t.len)

\* C7: a non-empty immutable sequence s (bytes, or a tuple of byte values)
\* given alone as rx_buf is always refused with the immutable-buffer error,
\* and given alone as tx_buf is always accepted, with a non-zero tx_buf
\* address and len = len(s).
C7_ImmutableSequences ==
    last.op = "SPITransfer" =>
        /\ (last.kw.tx_buf = NoneRef /\ last.kw.rx_buf # NoneRef
              /\ heap[last.kw.rx_buf].kind \in {"bytes", "tuple"}
              /\ heap[last.kw.rx_buf].len > 0) =>
              last.err.exc = "TypeError"
        /\ (last.kw.rx_buf = NoneRef /\ last.kw.tx_buf # NoneRef
              /\ heap[last.kw.tx_buf].kind \in {"bytes", "tuple"}
              /\ heap[last.kw.tx_buf].len > 0) =>
              /\ last.err = NoErr
              /\ last.obj._transfer.tx_buf # 0
              /\ last.obj._transfer.len = heap[last.kw.tx_buf].len

\* C8: the rx_buf of a constructed SPITransfer, and what a successful
\* transfer() returns, is the rx_buf argument when one was given and is
\* never None.
C8_RxBufNeverNone ==
    (last.op \in {"SPITransfer", "transfer"} /\ last.err = NoErr) =>
        /\ last.buf # NoneRef
        /\ last.kw.rx_buf # NoneRef => last.buf = last.kw.rx_buf

\* C9: a batch built from N parameter sets has length N; element i and record
\* i both come from parameter set i; its request code is the write-direction
\* command 0 of magic 'k' with payload size N records of 32 bytes, and for
\* N = 1 it is the code transfer() uses.
C9_BatchKeepsOrderAndCode ==
    (last.op = "SPITransferList" /\ last.err = NoErr) =>
        LET n == Len(last.kws)
            args == SPITransferList_ioctl_args(tl)
        IN  /\ tl.present
            /\ SPITransferList_len(tl) = n
            /\ Len(args[2]) = n
            /\ \A i \in 1..n :
                  LET kw == last.kws[i]
                      obj == SPITransferList_getitem(tl, i)
                      rec == args[2][i]
                  IN  /\ obj._tx_buf = kw.tx_buf
                      /\ obj._rx_buf = kw.rx_buf
                      /\ obj._transfer = rec
                      /\ (rec.tx_buf # 0) <=> (kw.tx_buf # NoneRef)
                      /\ (rec.rx_buf # 0) <=> (kw.rx_buf # NoneRef)
                      /\ kw.tx_buf # NoneRef => rec.len = heap[kw.tx_buf].len
                      /\ kw.rx_buf # NoneRef => rec.len = heap[kw.rx_buf].len
                      /\ rec.speed_hz = kw.sc.speed_hz
                      /\ rec.bits_per_word = kw.sc.bits_per_word
                      /\ rec.delay_usecs = kw.sc.delay_usecs
                      /\ (rec.cs_change = 1) <=> kw.sc.cs_change
                      /\ rec.tx_nbits = kw.sc.tx_nbits
                      /\ rec.rx_nbits = kw.sc.rx_nbits
                      /\ rec.word_delay_usecs = kw.sc.word_delay_usecs
            /\ IOC_DIR(args[1]) = IOC_WRITE
            /\ IOC_TYPE(args[1]) = 107
            /\ IOC_NR(args[1]) = 0
            /\ IOC_SIZE(args[1]) = n * 32
            /\ n = 1 => args[1] = SPI_IOC_MESSAGE_1

C9_Witness ==
    /\ last.op = "SPITransferList"
    /\ last.err = NoErr
    /\ Len(last.kws) >= 2
    /\ last.kws[1] # last.kws[2]
    /\ tl.present

\* C10: seek, tell and truncate always raise OSError(ENOTSUP), on an open or
\* a closed handle and whatever came before; they make no control call and
\* change neither the handle nor the device settings; seekable() is False.
C10_PositioningNotSupported ==
    [][last'.op \in PositionOps \cup {"seekable"} =>
        /\ closed' = closed
        /\ dev' = dev
        /\ wrote' = wrote
        /\ heap' = heap
        /\ tl' = tl
        /\ last'.calls = 0
        /\ last'.op \in PositionOps =>
              /\ last'.err.exc = "OSError"
              /\ last'.err.args = <<"ENOTSUP">>
        /\ last'.op = "seekable" =>
              /\ last'.err = NoErr
              /\ last'.flag = FALSE]_vars

C10_Witness ==
    /\ last.op = "truncate"
    /\ last.err.exc = "OSError"
    /\ wrote["speed_hz"].set
    /\ dev # InitialDev

====
